---- MODULE Spec2Model ----
(***************************************************************************)
(* otsshd: a one-time SSH daemon.  The model follows main.go (run, main),  *)
(* server.go (oneTimeServer, handleSSHSession) and the calls they make      *)
(* into gliderlabs/ssh (Server.ListenAndServe, Server.Close), sync.Once     *)
(* and os/exec.                                                             *)
(***************************************************************************)
EXTENDS Integers, Sequences, FiniteSets, TLC

(***************************************************************************)
(* Bounds of the model.                                                     *)
(***************************************************************************)
\* number of inbound connections the environment may open
MaxConns == 2
\* number of bytes the child process writes to the pseudoterminal
MaxOut == 2
\* number of window-change requests the peer sends after its pty request
MaxResize == 2
\* size of the read buffer of the child->peer loop (1024 in the source)
BufSize == 2

\* identity of the timer task among the callers of once.Do; connections are 1..MaxConns
Timer == 0
Conns == 1..MaxConns
\* non-zero byte values the child may produce; 0 is the value make([]byte, n) fills in
Bytes == {1, 2}
\* exit codes of the child: 0 is success, the other one an abnormal exit
ExitCodes == {0, 3}
\* public keys a peer may present
Keys == {"K1", "K2", "K3"}
\* contents the authorized_keys file may have, in file order
KeyFiles == {<<"K1", "K2">>, <<"K2">>}
\* number of values of a uint16, the type of the fields of the winsize structure
Uint16Values == 65536
\* window sizes (Width, Height) a peer may send; the width of the third and
\* the height of the last do not fit a uint16
WinSizes == {[w |-> 80, h |-> 24], [w |-> 132, h |-> 43], [w |-> Uint16Values + 80, h |-> 24],
             [w |-> 80, h |-> Uint16Values]}
\* the window of the pty request of a session
InitialWindows == {[w |-> 80, h |-> 24]}
\* the window size of a pty nobody has set yet
DefaultWinsize == [cols |-> 0, rows |-> 0]
\* errors r.Read may return: the pty read fails with EIO once the child is
\* gone (Linux) or reports io.EOF (BSD, macOS); EBADF stands for any other
\* failure of the read system call, which os.File wraps like EIO
ReadFailures == {"EIO", "EOF", "EBADF"}

(***************************************************************************)
(* Error values.  Go's nil error is Nil.                                    *)
(***************************************************************************)
Err(kind, code) == [kind |-> kind, code |-> code]
Nil == Err("nil", 0)
\* the value of a variable that has not been assigned a result yet
NoResult == Err("none", 0)
ErrServerClosed == Err("ErrServerClosed", 0)
ListenError == Err("listen", 0)
StartupError == Err("startup", 0)
PtyStartError == Err("ptyStart", 0)
ReadError == Err("read", 0)
LogWriteError == Err("logWrite", 0)
SessionWriteError == Err("sessionWrite", 0)
ExitError(code) == Err("exit", code)
\* the I/O failures handleSSHSession reports
BridgeIOErrors == {PtyStartError, ReadError, LogWriteError, SessionWriteError}

VARIABLES
    mainPc,         \* position of the main goroutine in main/run
    hasAnnounce,    \* announceCmd != ""
    authorizedKeys, \* result of parseAuthorizedKeysFile
    announced,      \* performAnnouncement was invoked
    keyPrinted,     \* the known-hosts line was written to stdout
    lasErr,         \* value returned by ots.ListenAndServe
    runResult,      \* value returned by run
    exitStatus,     \* exit status of the process, -1 while it runs
    ctxCancelled,   \* cctx of ListenAndServe is cancelled
    once,           \* ots.once: "idle", "running" (body executing), "done"
    executed,       \* callers whose once.Do body was executed
    timerPc,        \* position of the timer goroutine
    lnState,        \* listener of ots.server: "none", "listening", "closed", "failed"
    srvClosed,      \* ots.server.Close was called
    closedBy,       \* callers that called ots.server.Close
    conn,           \* per connection: state, presented key
    sessionErr,     \* ots.sessionErr
    bridgeCalls,    \* number of invocations of handleSSHSession
    brPc,           \* position inside handleSSHSession
    brRet,          \* value handleSSHSession returns
    isPty,          \* the session requested a pty
    childAll,       \* everything the child writes to the pty
    childRem,       \* what the child wrote and the loop has not read yet
    buf,            \* the buffer b of the current iteration
    transcript,     \* bytes written to logWriter
    peerOut,        \* bytes written to the session
    logChunks,      \* the buffers logWriter.Write has written, in order
    peerChunks,     \* the buffers s.Write has written, in order
    nPeerTry,       \* s.Write calls made by the loop
    waited,         \* cmd.Wait was called
    spawned,        \* pty.Start has started the child
    tasks,          \* goroutines handleSSHSession has started
    readErr,        \* the error of the r.Read that failed, "none" before
    sessWin,        \* ptyReq.Window, the window of the session's pty request
    winCh,          \* winCh: window events sent and not yet received
    winEvents,      \* all window events sent on winCh, in order
    winsize,        \* the window size of the pty
    sizeLog         \* the sizes setWinsize has set, in order

vars == <<mainPc, hasAnnounce, authorizedKeys, announced, keyPrinted, lasErr, runResult,
          exitStatus, ctxCancelled, once, executed, timerPc, lnState, srvClosed, closedBy,
          conn, sessionErr, bridgeCalls, brPc, brRet, isPty, childAll, childRem, buf,
          transcript, peerOut, logChunks, peerChunks, nPeerTry, waited, spawned, tasks,
          readErr, sessWin, winCh, winEvents, winsize, sizeLog>>

startVars == <<hasAnnounce, authorizedKeys, announced, keyPrinted>>
resultVars == <<lasErr, runResult, exitStatus>>
gateVars == <<once, executed>>
serverVars == <<lnState, srvClosed, closedBy>>
winVars == <<sessWin, winCh, winEvents, winsize, sizeLog>>
bridgeVars == <<bridgeCalls, brPc, brRet, isPty, childAll, childRem, buf, transcript,
                peerOut, logChunks, peerChunks, nPeerTry, waited, spawned, tasks, readErr,
                winVars>>

Init ==
    /\ mainPc = "openLog"
    /\ hasAnnounce \in BOOLEAN
    /\ authorizedKeys = <<>>
    /\ announced = FALSE
    /\ keyPrinted = FALSE
    /\ lasErr = NoResult
    /\ runResult = NoResult
    /\ exitStatus = -1
    /\ ctxCancelled = FALSE
    /\ once = "idle"
    /\ executed = {}
    /\ timerPc = "unspawned"
    /\ lnState = "none"
    /\ srvClosed = FALSE
    /\ closedBy = {}
    /\ conn = [c \in Conns |-> [st |-> "none", key |-> "K1"]]
    /\ sessionErr = Nil
    /\ bridgeCalls = 0
    /\ brPc = "idle"
    /\ brRet = NoResult
    /\ isPty = FALSE
    /\ childAll = <<>>
    /\ childRem = <<>>
    /\ buf = <<>>
    /\ transcript = <<>>
    /\ peerOut = <<>>
    /\ logChunks = <<>>
    /\ peerChunks = <<>>
    /\ nPeerTry = 0
    /\ waited = FALSE
    /\ spawned = FALSE
    /\ tasks = {}
    /\ readErr = "none"
    /\ sessWin = DefaultWinsize
    /\ winCh = <<>>
    /\ winEvents = <<>>
    /\ winsize = DefaultWinsize
    /\ sizeLog = <<>>

\* the process is alive: os.Exit or the return of main ends every goroutine
Alive == mainPc # "exited"

(***************************************************************************)
(* run and main (main.go).                                                  *)
(***************************************************************************)
\* a run that announces and prints the key before it loads the key set
RunNextAnnounceFirst(pc) ==
    CASE pc = "openLog" -> "announce"
      [] pc = "announce" -> "printKey"
      [] pc = "printKey" -> "parseKeys"
      [] pc = "parseKeys" -> "genKey"
      [] pc = "genKey" -> "spawnTimer"
      [] pc = "spawnTimer" -> "listen"
      [] pc = "listen" -> "serving"
      [] pc = "serving" -> "lasReturned"
      [] pc = "lasReturned" -> "returned"
      [] OTHER -> "exited"

\* a bug that emits the key line only after the server has returned
RunNextLatePrint(pc) ==
    CASE pc = "openLog" -> "parseKeys"
      [] pc = "parseKeys" -> "genKey"
      [] pc = "genKey" -> "announce"
      [] pc = "announce" -> "spawnTimer"
      [] pc = "printKey" -> "returned"
      [] pc = "spawnTimer" -> "listen"
      [] pc = "listen" -> "serving"
      [] pc = "serving" -> "lasReturned"
      [] pc = "lasReturned" -> "printKey"
      [] OTHER -> "exited"

\* the order of the statements of run, each followed by the next when it succeeds
RunNext(pc) ==
    CASE pc = "openLog" -> "parseKeys"
      [] pc = "parseKeys" -> "genKey"
      [] pc = "genKey" -> "announce"
      [] pc = "announce" -> "printKey"
      [] pc = "printKey" -> "spawnTimer"
      [] pc = "spawnTimer" -> "listen"
      [] pc = "listen" -> "serving"
      [] pc = "serving" -> "lasReturned"
      [] pc = "lasReturned" -> "returned"
      [] OTHER -> "exited"

\* run returns early with the error of a failed start-up step
StartupFail ==
    /\ mainPc \in {"openLog", "parseKeys", "genKey"}
    /\ mainPc' = "returned"
    /\ runResult' = StartupError
    /\ UNCHANGED <<startVars, lasErr, exitStatus, ctxCancelled, gateVars, timerPc,
                   serverVars, conn, sessionErr, bridgeVars>>

\* os.OpenFile of the log succeeds
OpenLog ==
    /\ mainPc = "openLog"
    /\ mainPc' = RunNext(mainPc)
    /\ UNCHANGED <<startVars, resultVars, ctxCancelled, gateVars, timerPc, serverVars,
                   conn, sessionErr, bridgeVars>>

\* parseAuthorizedKeysFile succeeds
ParseKeys ==
    /\ mainPc = "parseKeys"
    /\ \E f \in KeyFiles : authorizedKeys' = f
    /\ mainPc' = RunNext(mainPc)
    /\ UNCHANGED <<hasAnnounce, announced, keyPrinted, resultVars, ctxCancelled, gateVars,
                   timerPc, serverVars, conn, sessionErr, bridgeVars>>

\* generateKey and the two key conversions succeed
GenKey ==
    /\ mainPc = "genKey"
    /\ mainPc' = RunNext(mainPc)
    /\ UNCHANGED <<startVars, resultVars, ctxCancelled, gateVars, timerPc, serverVars,
                   conn, sessionErr, bridgeVars>>

\* performAnnouncement is invoked when a command was given; its failure is only logged
Announce ==
    /\ mainPc = "announce"
    /\ announced' = hasAnnounce
    /\ mainPc' = RunNext(mainPc)
    /\ UNCHANGED <<hasAnnounce, authorizedKeys, keyPrinted, resultVars, ctxCancelled,
                   gateVars, timerPc, serverVars, conn, sessionErr, bridgeVars>>

\* logSuccess, newOneTimeServer and the Printf of the known-hosts line
PrintKey ==
    /\ mainPc = "printKey"
    /\ keyPrinted' = TRUE
    /\ mainPc' = RunNext(mainPc)
    /\ UNCHANGED <<hasAnnounce, authorizedKeys, announced, resultVars, ctxCancelled,
                   gateVars, timerPc, serverVars, conn, sessionErr, bridgeVars>>

\* ListenAndServe: context.WithCancel and g.Go start the timer goroutine
SpawnTimer ==
    /\ mainPc = "spawnTimer"
    /\ timerPc' = "waiting"
    /\ mainPc' = RunNext(mainPc)
    /\ UNCHANGED <<startVars, resultVars, ctxCancelled, gateVars, serverVars, conn,
                   sessionErr, bridgeVars>>

\* ots.server.ListenAndServe: net.Listen succeeds and Serve registers the listener
Listen ==
    /\ mainPc = "listen"
    /\ lnState' = "listening"
    /\ mainPc' = RunNext(mainPc)
    /\ UNCHANGED <<startVars, resultVars, ctxCancelled, gateVars, timerPc, srvClosed,
                   closedBy, conn, sessionErr, bridgeVars>>

\* a ListenAndServe that returns without cancelling cctx
NoDeferredCancel(cancelled) == cancelled

\* cctx after the return of ots.ListenAndServe: defer cancel() has run
DeferredCancel(cancelled) == TRUE

\* ots.server.ListenAndServe: net.Listen fails; the deferred cancel runs
ListenFail ==
    /\ mainPc = "listen"
    /\ lnState' = "failed"
    /\ lasErr' = ListenError
    /\ ctxCancelled' = DeferredCancel(ctxCancelled)
    /\ mainPc' = "lasReturned"
    /\ UNCHANGED <<startVars, runResult, exitStatus, gateVars, timerPc, srvClosed,
                   closedBy, conn, sessionErr, bridgeVars>>

\* Serve: Accept fails on the closed listener, Serve returns ErrServerClosed;
\* the deferred cancel of ListenAndServe runs
ServeReturn ==
    /\ mainPc = "serving"
    /\ lnState = "closed"
    /\ lasErr' = ErrServerClosed
    /\ ctxCancelled' = DeferredCancel(ctxCancelled)
    /\ mainPc' = RunNext(mainPc)
    /\ UNCHANGED <<startVars, runResult, exitStatus, gateVars, timerPc, serverVars, conn,
                   sessionErr, bridgeVars>>

\* a run without the errors.Is(err, ssh.ErrServerClosed) check
RunResultNoClosedCheck(err, sessErr) == IF err # Nil THEN err ELSE sessErr

\* what run returns after ListenAndServe returned err
RunResult(err, sessErr) ==
    IF err # Nil
    THEN IF err = ErrServerClosed THEN Nil ELSE err
    ELSE sessErr

\* the listener after Server.Close
CloseListener(ln) == IF ln = "listening" THEN "closed" ELSE ln

\* run: the error check after ListenAndServe, server.Close and SessionError
RunReturn ==
    /\ mainPc = "lasReturned"
    /\ runResult' = RunResult(lasErr, sessionErr)
    /\ IF lasErr = Nil
       THEN /\ srvClosed' = TRUE
            /\ lnState' = CloseListener(lnState)
       ELSE UNCHANGED <<srvClosed, lnState>>
    /\ mainPc' = RunNext(mainPc)
    /\ UNCHANGED <<startVars, lasErr, exitStatus, ctxCancelled, gateVars, timerPc,
                   closedBy, conn, sessionErr, bridgeVars>>

\* main: the code handed to os.Exit for a non-nil error of run
ExitCode(err) == IF err.kind = "exit" THEN err.code ELSE 0

\* the exit status of the process: 0 when main returns, else the low byte of the code
ExitStatus(err) == IF err = Nil THEN 0 ELSE ExitCode(err) % 256

\* main returns or calls os.Exit
MainExit ==
    /\ mainPc = "returned"
    /\ exitStatus' = ExitStatus(runResult)
    /\ mainPc' = "exited"
    /\ UNCHANGED <<startVars, lasErr, runResult, ctxCancelled, gateVars, timerPc,
                   serverVars, conn, sessionErr, bridgeVars>>

(***************************************************************************)
(* sync.Once and the timer goroutine of ListenAndServe (server.go).         *)
(***************************************************************************)
\* a once that lets a caller in again after the body has run
DoEntersAgain(o) == o \in {"idle", "done"}

\* a once that does not make callers wait while the body is executing
DoEntersWhileRunning(o) == o \in {"idle", "running"}

\* once.Do executes the body for the caller that finds the once unused
DoEnters(o) == o = "idle"

\* once.Do returns without executing when the body has completed; while the
\* body is executing the caller waits on the mutex of the once
DoSkips(o) == o = "done"

\* the case <-time.After(ots.timeout) of the select is taken
TimerElapse ==
    /\ Alive
    /\ timerPc = "waiting"
    /\ timerPc' = "fired"
    /\ UNCHANGED <<mainPc, startVars, resultVars, ctxCancelled, gateVars, serverVars,
                   conn, sessionErr, bridgeVars>>

\* the case <-cctx.Done() of the select is taken
TimerCancel ==
    /\ Alive
    /\ timerPc = "waiting"
    /\ ctxCancelled
    /\ timerPc' = "cancelled"
    /\ UNCHANGED <<mainPc, startVars, resultVars, ctxCancelled, gateVars, serverVars,
                   conn, sessionErr, bridgeVars>>

\* the timer goroutine calls ots.once.Do
TimerOnce ==
    /\ Alive
    /\ timerPc = "fired"
    /\ \/ /\ DoEnters(once)
          /\ once' = "running"
          /\ executed' = executed \cup {Timer}
          /\ timerPc' = "body"
       \/ /\ ~DoEnters(once)
          /\ DoSkips(once)
          /\ timerPc' = "done"
          /\ UNCHANGED gateVars
    /\ UNCHANGED <<mainPc, startVars, resultVars, ctxCancelled, serverVars, conn,
                   sessionErr, bridgeVars>>

\* the body of the timer's once.Do: logWarn and ots.Close
TimerBody ==
    /\ Alive
    /\ timerPc = "body"
    /\ srvClosed' = TRUE
    /\ lnState' = CloseListener(lnState)
    /\ closedBy' = closedBy \cup {Timer}
    /\ once' = "done"
    /\ timerPc' = "done"
    /\ UNCHANGED <<mainPc, startVars, resultVars, ctxCancelled, executed, conn,
                   sessionErr, bridgeVars>>

(***************************************************************************)
(* Connections: accept, public-key authentication, session handler.         *)
(***************************************************************************)
\* a handler that compares the presented key with the first authorized key only
PublicKeyHandlerFirstOnly(keys, key) == Len(keys) > 0 /\ keys[1] = key

\* ssh.KeysEqual: the two keys marshal to the same bytes
KeysEqual(a, b) == a = b

\* the loop of PublicKeyHandler from the i-th authorized key on
RECURSIVE ScanKeys(_, _, _)
ScanKeys(keys, key, i) ==
    IF i > Len(keys) THEN FALSE
    ELSE IF KeysEqual(key, keys[i]) THEN TRUE
    ELSE ScanKeys(keys, key, i + 1)

\* PublicKeyHandler of newOneTimeServer
PublicKeyHandler(keys, key) == ScanKeys(keys, key, 1)

\* Serve accepts a TCP connection and starts HandleConn for it; connections
\* are numbered in the order they are accepted
Accept(c) ==
    /\ Alive
    /\ lnState = "listening"
    /\ conn[c].st = "none"
    /\ \A d \in Conns : d < c => conn[d].st # "none"
    /\ conn' = [conn EXCEPT ![c].st = "accepted"]
    /\ UNCHANGED <<mainPc, startVars, resultVars, ctxCancelled, gateVars, timerPc,
                   serverVars, sessionErr, bridgeVars>>

\* the peer presents key k; the handshake completes when PublicKeyHandler accepts it
Auth(c, k) ==
    /\ Alive
    /\ conn[c].st = "accepted"
    /\ conn' = [conn EXCEPT ![c] =
                   [st |-> IF PublicKeyHandler(authorizedKeys, k) THEN "authed" ELSE "rejected",
                    key |-> k]]
    /\ UNCHANGED <<mainPc, startVars, resultVars, ctxCancelled, gateVars, timerPc,
                   serverVars, sessionErr, bridgeVars>>

\* the session handler of an authenticated connection calls ots.once.Do; the
\* body starts with the call of handleSSHSession.  The session s comes with
\* its pty request, if the peer made one: the server has then sent the
\* window of the request on winCh.
Handler(c) ==
    /\ Alive
    /\ conn[c].st = "authed"
    /\ \/ /\ DoEnters(once)
          /\ once' = "running"
          /\ executed' = executed \cup {c}
          /\ conn' = [conn EXCEPT ![c].st = "bridging"]
          /\ bridgeCalls' = bridgeCalls + 1
          /\ brPc' = "start"
          /\ \E p \in BOOLEAN : \E w \in InitialWindows :
                /\ isPty' = p
                /\ sessWin' = IF p THEN w ELSE sessWin
                /\ winCh' = IF p THEN <<w>> ELSE winCh
                /\ winEvents' = IF p THEN <<w>> ELSE winEvents
          /\ UNCHANGED <<brRet, childAll, childRem, buf, transcript, peerOut,
                         logChunks, peerChunks, nPeerTry, waited, spawned, tasks,
                         readErr, winsize, sizeLog>>
       \/ /\ ~DoEnters(once)
          /\ DoSkips(once)
          /\ conn' = [conn EXCEPT ![c].st = "skipped"]
          /\ UNCHANGED <<gateVars, bridgeVars>>
    /\ UNCHANGED <<mainPc, startVars, resultVars, ctxCancelled, timerPc, serverVars,
                   sessionErr>>

\* a handler that calls handleSSHSession and drops what it returns
RecordedOutcomeDropped(ret, old) == old

\* ots.sessionErr after ots.sessionErr = handleSSHSession(...) returned ret
RecordedOutcome(ret, old) == ret

\* the body of the handler's once.Do stores what handleSSHSession returned
HandlerRecord(c) ==
    /\ Alive
    /\ conn[c].st = "bridging"
    /\ brPc = "ret"
    /\ sessionErr' = RecordedOutcome(brRet, sessionErr)
    /\ brPc' = "idle"
    /\ conn' = [conn EXCEPT ![c].st = "closing"]
    /\ UNCHANGED <<mainPc, startVars, resultVars, ctxCancelled, gateVars, timerPc,
                   serverVars, bridgeCalls, brRet, isPty, childAll, childRem, buf,
                   transcript, peerOut, logChunks, peerChunks, nPeerTry, waited,
                   spawned, tasks, readErr, winVars>>

\* the body of the handler's once.Do ends: logNotice, server.Close
HandlerClose(c) ==
    /\ Alive
    /\ conn[c].st = "closing"
    /\ srvClosed' = TRUE
    /\ lnState' = CloseListener(lnState)
    /\ closedBy' = closedBy \cup {c}
    /\ once' = "done"
    /\ conn' = [conn EXCEPT ![c].st = "served"]
    /\ UNCHANGED <<mainPc, startVars, resultVars, ctxCancelled, executed, timerPc,
                   sessionErr, bridgeVars>>

(***************************************************************************)
(* handleSSHSession (server.go).                                            *)
(***************************************************************************)
Min(a, b) == IF a < b THEN a ELSE b

\* everything a child may write before it exits
Outputs == UNION {[1..n -> Bytes] : n \in 0..MaxOut}

\* "No PTY requested.\n", abbreviated to its first and its last byte
Diagnostic == <<78, 10>>

\* n bytes as make([]byte, n) returns them
Zeros(n) == [i \in 1..n |-> 0]

\* the buffer b after r.Read(b) has stored chunk in it; the loop drops the
\* count Read returns and hands the whole of b to both writers
ReadInto(chunk) == chunk \o Zeros(BufSize - Len(chunk))

\* a loop that writes a chunk to the session before it logs it
LoopNextPeerFirst(pc) ==
    CASE pc = "read" -> "write"
      [] pc = "write" -> "log"
      [] OTHER -> "read"

\* the order of the statements of the child->peer loop
LoopNext(pc) ==
    CASE pc = "read" -> "log"
      [] pc = "log" -> "write"
      [] OTHER -> "read"

\* a handleSSHSession that starts its goroutines before it looks at isPty
GoroutinesEarly(step) == {"resize", "input"}

\* the goroutines handleSSHSession has started when it has passed step: none
\* up to the check of isPty and the call of pty.Start, the resize loop and
\* the copy of the peer's input after pty.Start succeeded
GoroutinesAfter(step) == IF step = "ptyStart" THEN {"resize", "input"} ELSE {}

\* s.Pty, the diagnostic for a session without a pty, pty.Start and the two
\* go statements
BridgeStart ==
    /\ Alive
    /\ brPc = "start"
    /\ \/ /\ ~isPty
          /\ peerOut' = peerOut \o Diagnostic
          /\ brRet' = Nil
          /\ brPc' = "ret"
          /\ tasks' = GoroutinesAfter("ptyCheck")
          /\ UNCHANGED <<childAll, childRem, spawned>>
       \/ /\ isPty
          /\ brRet' = PtyStartError
          /\ brPc' = "ret"
          /\ tasks' = GoroutinesAfter("ptyCheck")
          /\ UNCHANGED <<childAll, childRem, peerOut, spawned>>
       \/ /\ isPty
          /\ \E out \in Outputs :
                /\ childAll' = out
                /\ childRem' = out
          /\ spawned' = TRUE
          /\ tasks' = GoroutinesAfter("ptyStart")
          /\ brPc' = "read"
          /\ UNCHANGED <<brRet, peerOut>>
    /\ UNCHANGED <<mainPc, startVars, resultVars, ctxCancelled, gateVars, timerPc,
                   serverVars, conn, sessionErr, bridgeCalls, isPty, buf, transcript,
                   logChunks, peerChunks, nPeerTry, waited, readErr, winVars>>

\* the read reports that the child is gone and its output read: the error
\* is an end of file or the EIO of a pty whose other side is closed
EndOfOutput(e) == e \in {"EOF", "EIO"}

\* _, ok := err.(*os.PathError): the errors of the read system call are
\* *os.PathError values, io.EOF and the errors of bufio are not
IsPathError(e) == e \in {"EIO", "EBADF"}

\* b := make([]byte, 1024); _, err := r.Read(b) and the two checks of err
BridgeRead ==
    /\ Alive
    /\ brPc = "read"
    /\ \/ /\ childRem # <<>>
          /\ \E n \in 1..Min(BufSize, Len(childRem)) :
                /\ buf' = ReadInto(SubSeq(childRem, 1, n))
                /\ childRem' = SubSeq(childRem, n + 1, Len(childRem))
          /\ brPc' = LoopNext(brPc)
          /\ UNCHANGED <<brRet, readErr>>
       \/ /\ \E e \in ReadFailures :
                /\ EndOfOutput(e) => childRem = <<>>
                /\ readErr' = e
                /\ IF IsPathError(e)
                   THEN /\ brPc' = "wait"
                        /\ UNCHANGED brRet
                   ELSE /\ brRet' = ReadError
                        /\ brPc' = "ret"
          /\ UNCHANGED <<buf, childRem>>
    /\ UNCHANGED <<mainPc, startVars, resultVars, ctxCancelled, gateVars, timerPc,
                   serverVars, conn, sessionErr, bridgeCalls, isPty, childAll, transcript,
                   peerOut, logChunks, peerChunks, nPeerTry, waited, spawned, tasks,
                   winVars>>

\* logWriter.Write(b)
BridgeLog ==
    /\ Alive
    /\ brPc = "log"
    /\ \/ /\ transcript' = transcript \o buf
          /\ logChunks' = Append(logChunks, buf)
          /\ brPc' = LoopNext(brPc)
          /\ UNCHANGED brRet
       \/ /\ brRet' = LogWriteError
          /\ brPc' = "ret"
          /\ UNCHANGED <<transcript, logChunks>>
    /\ UNCHANGED <<mainPc, startVars, resultVars, ctxCancelled, gateVars, timerPc,
                   serverVars, conn, sessionErr, bridgeCalls, isPty, childAll, childRem,
                   buf, peerOut, peerChunks, nPeerTry, waited, spawned, tasks, readErr,
                   winVars>>

\* s.Write(b)
BridgeWrite ==
    /\ Alive
    /\ brPc = "write"
    /\ nPeerTry' = nPeerTry + 1
    /\ \/ /\ peerOut' = peerOut \o buf
          /\ peerChunks' = Append(peerChunks, buf)
          /\ brPc' = LoopNext(brPc)
          /\ UNCHANGED brRet
       \/ /\ brRet' = SessionWriteError
          /\ brPc' = "ret"
          /\ UNCHANGED <<peerOut, peerChunks>>
    /\ UNCHANGED <<mainPc, startVars, resultVars, ctxCancelled, gateVars, timerPc,
                   serverVars, conn, sessionErr, bridgeCalls, isPty, childAll, childRem,
                   buf, transcript, logChunks, waited, spawned, tasks, readErr, winVars>>

\* what cmd.Wait returns for a child that exited with code
WaitResult(code) == IF code = 0 THEN Nil ELSE ExitError(code)

\* return cmd.Wait()
BridgeWait ==
    /\ Alive
    /\ brPc = "wait"
    /\ waited' = TRUE
    /\ \E code \in ExitCodes : brRet' = WaitResult(code)
    /\ brPc' = "ret"
    /\ UNCHANGED <<mainPc, startVars, resultVars, ctxCancelled, gateVars, timerPc,
                   serverVars, conn, sessionErr, bridgeCalls, isPty, childAll, childRem,
                   buf, transcript, peerOut, logChunks, peerChunks, nPeerTry, spawned,
                   tasks, readErr, winVars>>

(***************************************************************************)
(* Window sizes: the peer's window-change requests and the resize loop.    *)
(***************************************************************************)
\* a setWinsize that sets the largest uint16 for a dimension that does not fit
SetWinsizeClamped(w, h) ==
    [cols |-> IF w < Uint16Values THEN w ELSE Uint16Values - 1,
     rows |-> IF h < Uint16Values THEN h ELSE Uint16Values - 1]

\* a setWinsize that takes its arguments in the order of the structure
SetWinsizeSwapped(w, h) == [cols |-> h % Uint16Values, rows |-> w % Uint16Values]

\* the window size of f after setWinsize(f, w, h): the ioctl gets
\* struct{ h, w, x, y uint16 }{uint16(h), uint16(w), 0, 0}
SetWinsize(w, h) == [cols |-> w % Uint16Values, rows |-> h % Uint16Values]

\* the peer of the open pty session sends a window-change request and the
\* server sends its window on winCh, once the last one was received
WindowChange(win) ==
    /\ Alive
    /\ isPty
    /\ \E c \in Conns : conn[c].st = "bridging"
    /\ Len(winEvents) <= MaxResize
    /\ winCh = <<>>
    /\ winCh' = <<win>>
    /\ winEvents' = Append(winEvents, win)
    /\ UNCHANGED <<mainPc, startVars, resultVars, ctxCancelled, gateVars, timerPc,
                   serverVars, conn, sessionErr, bridgeCalls, brPc, brRet, isPty,
                   childAll, childRem, buf, transcript, peerOut, logChunks, peerChunks,
                   nPeerTry, waited, spawned, tasks, readErr, sessWin, winsize, sizeLog>>

\* one turn of for win := range winCh { setWinsize(f, win.Width, win.Height) }
ResizeApply ==
    /\ Alive
    /\ "resize" \in tasks
    /\ winCh # <<>>
    /\ winsize' = SetWinsize(Head(winCh).w, Head(winCh).h)
    /\ sizeLog' = Append(sizeLog, winsize')
    /\ winCh' = Tail(winCh)
    /\ UNCHANGED <<mainPc, startVars, resultVars, ctxCancelled, gateVars, timerPc,
                   serverVars, conn, sessionErr, bridgeCalls, brPc, brRet, isPty,
                   childAll, childRem, buf, transcript, peerOut, logChunks, peerChunks,
                   nPeerTry, waited, spawned, tasks, readErr, sessWin, winEvents>>

(***************************************************************************)
(* The program.                                                             *)
(***************************************************************************)
Next ==
    \/ StartupFail
    \/ OpenLog
    \/ ParseKeys
    \/ GenKey
    \/ Announce
    \/ PrintKey
    \/ SpawnTimer
    \/ Listen
    \/ ListenFail
    \/ ServeReturn
    \/ RunReturn
    \/ MainExit
    \/ TimerElapse
    \/ TimerCancel
    \/ TimerOnce
    \/ TimerBody
    \/ \E c \in Conns : Accept(c)
    \/ \E c \in Conns : \E k \in Keys : Auth(c, k)
    \/ \E c \in Conns : Handler(c)
    \/ \E c \in Conns : HandlerRecord(c)
    \/ \E c \in Conns : HandlerClose(c)
    \/ BridgeStart
    \/ BridgeRead
    \/ BridgeLog
    \/ BridgeWrite
    \/ BridgeWait

Spec == Init /\ [][Next]_vars

\* Every goroutine that can take a step eventually takes one, the timeout
\* eventually elapses and the child eventually exits; peers need not connect.
Fairness ==
    /\ WF_vars(OpenLog)
    /\ WF_vars(ParseKeys)
    /\ WF_vars(GenKey)
    /\ WF_vars(Announce)
    /\ WF_vars(PrintKey)
    /\ WF_vars(SpawnTimer)
    /\ WF_vars(Listen)
    /\ WF_vars(ServeReturn)
    /\ WF_vars(RunReturn)
    /\ WF_vars(MainExit)
    /\ WF_vars(TimerElapse)
    /\ WF_vars(TimerOnce)
    /\ WF_vars(TimerBody)
    /\ \A c \in Conns : WF_vars(Handler(c))
    /\ \A c \in Conns : WF_vars(HandlerRecord(c))
    /\ \A c \in Conns : WF_vars(HandlerClose(c))
    /\ WF_vars(BridgeStart)
    /\ WF_vars(BridgeRead)
    /\ WF_vars(BridgeLog)
    /\ WF_vars(BridgeWrite)
    /\ WF_vars(BridgeWait)

FairSpec == Spec /\ Fairness

(***************************************************************************)
(* The session of the first connection, with the window-change requests of  *)
(* its peer and the resize loop.  It starts where the server is listening,  *)
(* the timer is waiting and the first peer has authenticated.               *)
(***************************************************************************)
ResizeInit ==
    /\ mainPc = "serving"
    /\ hasAnnounce = FALSE
    /\ authorizedKeys \in KeyFiles
    /\ announced = FALSE
    /\ keyPrinted = TRUE
    /\ lasErr = NoResult
    /\ runResult = NoResult
    /\ exitStatus = -1
    /\ ctxCancelled = FALSE
    /\ once = "idle"
    /\ executed = {}
    /\ timerPc = "waiting"
    /\ lnState = "listening"
    /\ srvClosed = FALSE
    /\ closedBy = {}
    /\ conn = [c \in Conns |-> IF c = 1 THEN [st |-> "authed", key |-> "K2"]
                                         ELSE [st |-> "none", key |-> "K1"]]
    /\ sessionErr = Nil
    /\ bridgeCalls = 0
    /\ brPc = "idle"
    /\ brRet = NoResult
    /\ isPty = FALSE
    /\ childAll = <<>>
    /\ childRem = <<>>
    /\ buf = <<>>
    /\ transcript = <<>>
    /\ peerOut = <<>>
    /\ logChunks = <<>>
    /\ peerChunks = <<>>
    /\ nPeerTry = 0
    /\ waited = FALSE
    /\ spawned = FALSE
    /\ tasks = {}
    /\ readErr = "none"
    /\ sessWin = DefaultWinsize
    /\ winCh = <<>>
    /\ winEvents = <<>>
    /\ winsize = DefaultWinsize
    /\ sizeLog = <<>>

ResizeNext ==
    \/ \E c \in Conns : Handler(c)
    \/ \E c \in Conns : HandlerRecord(c)
    \/ BridgeStart
    \/ BridgeRead
    \/ BridgeLog
    \/ BridgeWrite
    \/ BridgeWait
    \/ \E win \in WinSizes : WindowChange(win)
    \/ ResizeApply

ResizeSpec == ResizeInit /\ [][ResizeNext]_vars

(***************************************************************************)
(* The run of pty.go: the server and the timer are two tasks of an          *)
(* errgroup, the handler sends what handleSession returns on sessionChan,   *)
(* run receives it after g.Wait.  handleSession is handleSSHSession under   *)
(* another name, PublicKeyHandler and the once are used in the same way.    *)
(* It starts where the key line is printed and the server value is built.   *)
(***************************************************************************)
\* a channel: made by make or nil, its capacity and the values it buffers
NilChan == [made |-> FALSE, cap |-> 0, buf |-> <<>>]

\* var sessionChan chan error: declared, never made
sessionChan == NilChan

\* a send on ch can proceed: a send on a nil channel blocks for ever, and run
\* receives only after g.Wait, so a send has to find room in the buffer
CanSend(ch) == ch.made /\ Len(ch.buf) < ch.cap

\* case err := <-sessionChan of a select with a default: a value is buffered
CanReceive(ch) == ch.made /\ ch.buf # <<>>

PtyInit ==
    /\ mainPc = "ptyGo"
    /\ hasAnnounce \in BOOLEAN
    /\ authorizedKeys \in KeyFiles
    /\ announced = hasAnnounce
    /\ keyPrinted = TRUE
    /\ lasErr = NoResult
    /\ runResult = NoResult
    /\ exitStatus = -1
    /\ ctxCancelled = FALSE
    /\ once = "idle"
    /\ executed = {}
    /\ timerPc = "unspawned"
    /\ lnState = "none"
    /\ srvClosed = FALSE
    /\ closedBy = {}
    /\ conn = [c \in Conns |-> [st |-> "none", key |-> "K1"]]
    /\ sessionErr = Nil
    /\ bridgeCalls = 0
    /\ brPc = "idle"
    /\ brRet = NoResult
    /\ isPty = FALSE
    /\ childAll = <<>>
    /\ childRem = <<>>
    /\ buf = <<>>
    /\ transcript = <<>>
    /\ peerOut = <<>>
    /\ logChunks = <<>>
    /\ peerChunks = <<>>
    /\ nPeerTry = 0
    /\ waited = FALSE
    /\ spawned = FALSE
    /\ tasks = {}
    /\ readErr = "none"
    /\ sessWin = DefaultWinsize
    /\ winCh = <<>>
    /\ winEvents = <<>>
    /\ winsize = DefaultWinsize
    /\ sizeLog = <<>>

\* the two g.Go calls; run goes on to g.Wait
PtyGo ==
    /\ mainPc = "ptyGo"
    /\ mainPc' = "gWait"
    /\ timerPc' = "waiting"
    /\ UNCHANGED <<startVars, resultVars, ctxCancelled, gateVars, serverVars, conn,
                   sessionErr, bridgeVars>>

\* the first task: server.ListenAndServe listens
PtyListen ==
    /\ mainPc = "gWait"
    /\ lnState = "none"
    /\ lasErr = NoResult
    /\ lnState' = "listening"
    /\ UNCHANGED <<mainPc, startVars, resultVars, ctxCancelled, gateVars, timerPc,
                   srvClosed, closedBy, conn, sessionErr, bridgeVars>>

\* the first task: net.Listen fails and the task returns the error
PtyListenFail ==
    /\ mainPc = "gWait"
    /\ lnState = "none"
    /\ lasErr = NoResult
    /\ lnState' = "failed"
    /\ lasErr' = ListenError
    /\ UNCHANGED <<mainPc, startVars, runResult, exitStatus, ctxCancelled, gateVars,
                   timerPc, srvClosed, closedBy, conn, sessionErr, bridgeVars>>

\* the first task: Serve returns ErrServerClosed on the closed listener
PtyServeReturn ==
    /\ mainPc = "gWait"
    /\ lnState = "closed"
    /\ lasErr = NoResult
    /\ lasErr' = ErrServerClosed
    /\ UNCHANGED <<mainPc, startVars, runResult, exitStatus, ctxCancelled, gateVars,
                   timerPc, serverVars, conn, sessionErr, bridgeVars>>

\* the body of the handler's once.Do after handleSession returned: the send
\* on sessionChan, then server.Shutdown.  A send that cannot proceed leaves
\* the handler blocked inside the once.
PtyHandlerSend(c) ==
    /\ Alive
    /\ conn[c].st = "bridging"
    /\ brPc = "ret"
    /\ brPc' = "idle"
    /\ IF CanSend(sessionChan)
       THEN /\ sessionErr' = brRet
            /\ srvClosed' = TRUE
            /\ lnState' = CloseListener(lnState)
            /\ closedBy' = closedBy \cup {c}
            /\ once' = "done"
            /\ conn' = [conn EXCEPT ![c].st = "served"]
       ELSE /\ conn' = [conn EXCEPT ![c].st = "blockedSend"]
            /\ UNCHANGED <<sessionErr, serverVars, once>>
    /\ UNCHANGED <<mainPc, startVars, resultVars, ctxCancelled, executed, timerPc,
                   bridgeCalls, brRet, isPty, childAll, childRem, buf, transcript,
                   peerOut, logChunks, peerChunks, nPeerTry, waited, spawned, tasks,
                   readErr, winVars>>

\* the body of the timer's once.Do: log.Printf and server.Shutdown
PtyTimerBody ==
    /\ Alive
    /\ timerPc = "body"
    /\ srvClosed' = TRUE
    /\ lnState' = CloseListener(lnState)
    /\ closedBy' = closedBy \cup {Timer}
    /\ once' = "done"
    /\ timerPc' = "done"
    /\ UNCHANGED <<mainPc, startVars, resultVars, ctxCancelled, executed, conn,
                   sessionErr, bridgeVars>>

\* what the first task returns for the error err of server.ListenAndServe
PtyServeTaskResult(err) == IF err = ErrServerClosed THEN Nil ELSE err

\* what run returns after g.Wait returned err: the error of a task, else
\* what the select finds on sessionChan, else nil
PtyRunResult(err, ch, sent) ==
    IF err # Nil THEN err
    ELSE IF CanReceive(ch) THEN sent
    ELSE Nil

\* g.Wait returns when both tasks have returned; the select and the return
PtyWait ==
    /\ mainPc = "gWait"
    /\ lasErr # NoResult
    /\ timerPc = "done"
    /\ runResult' = PtyRunResult(PtyServeTaskResult(lasErr), sessionChan, sessionErr)
    /\ mainPc' = "returned"
    /\ UNCHANGED <<startVars, lasErr, exitStatus, ctxCancelled, gateVars, timerPc,
                   serverVars, conn, sessionErr, bridgeVars>>

PtyNext ==
    \/ PtyGo
    \/ PtyListen
    \/ PtyListenFail
    \/ PtyServeReturn
    \/ PtyWait
    \/ MainExit
    \/ TimerElapse
    \/ TimerOnce
    \/ PtyTimerBody
    \/ \E c \in Conns : Accept(c)
    \/ \E c \in Conns : \E k \in Keys : Auth(c, k)
    \/ \E c \in Conns : Handler(c)
    \/ \E c \in Conns : PtyHandlerSend(c)
    \/ BridgeStart
    \/ BridgeRead
    \/ BridgeLog
    \/ BridgeWrite
    \/ BridgeWait

PtySpec == PtyInit /\ [][PtyNext]_vars

\* Every goroutine that can take a step eventually takes one and the timeout
\* eventually elapses; peers need not connect and net.Listen need not fail.
PtyFairness ==
    /\ WF_vars(PtyGo)
    /\ WF_vars(PtyListen)
    /\ WF_vars(PtyServeReturn)
    /\ WF_vars(PtyWait)
    /\ WF_vars(MainExit)
    /\ WF_vars(TimerElapse)
    /\ WF_vars(TimerOnce)
    /\ WF_vars(PtyTimerBody)
    /\ \A c \in Conns : WF_vars(Handler(c))
    /\ \A c \in Conns : WF_vars(PtyHandlerSend(c))
    /\ WF_vars(BridgeStart)
    /\ WF_vars(BridgeRead)
    /\ WF_vars(BridgeLog)
    /\ WF_vars(BridgeWrite)
    /\ WF_vars(BridgeWait)

PtyFairSpec == PtySpec /\ PtyFairness

(***************************************************************************)
(* Properties.                                                              *)
(***************************************************************************)
Range(f) == {f[i] : i \in DOMAIN f}

IsPrefix(a, b) == Len(a) <= Len(b) /\ SubSeq(b, 1, Len(a)) = a

\* run has returned
RunReturned == mainPc \in {"returned", "exited"}

\* the callers whose call of once.Do has returned
Returned ==
    {c \in Conns : conn[c].st \in {"skipped", "served"}}
        \cup (IF timerPc = "done" THEN {Timer} ELSE {})

\* C1: over every interleaving of the session handlers and the timer task
\* exactly one once.Do body executes: never two, and not zero once a call of
\* once.Do has returned; the once leaves "idle" exactly when that body starts
\* and a caller that finds it used executes nothing.
C1_ExactlyOneTrigger ==
    /\ Cardinality(executed) <= 1
    /\ (once # "idle") <=> (Cardinality(executed) = 1)
    /\ Returned # {} => Cardinality(executed) = 1
    /\ \A c \in Conns : conn[c].st = "skipped" => c \notin executed

\* a session won the once and the timer, which fired too, executed nothing
C1_Witness ==
    /\ timerPc = "done"
    /\ Timer \notin executed
    /\ \E c \in Conns : c \in executed /\ conn[c].st = "served"

\* C2: whatever the number of authenticated connections, before or after the
\* timeout, handleSSHSession is invoked at most once, and only for the
\* connection that won the once; a handler that finds the once used returns
\* without bridging although its handshake completed.
C2_BridgeAtMostOnce ==
    /\ bridgeCalls <= 1
    /\ bridgeCalls = Cardinality(executed \cap Conns)
    /\ \A c \in Conns :
          conn[c].st = "skipped" =>
              /\ conn[c].key \in Range(authorizedKeys)
              /\ c \notin executed

\* two connections completed their handshake; one was bridged, the other skipped
C2_Witness ==
    \E c, d \in Conns :
        /\ conn[c].st = "served"
        /\ conn[d].st = "skipped"
        /\ bridgeCalls = 1

\* C3: whenever a session was bridged, run returns the outcome the bridge
\* returned for it.
C3_RunReturnsSessionOutcome ==
    (RunReturned /\ \E c \in Conns : conn[c].st \in {"closing", "served"})
        => runResult = sessionErr

\* C4: the exit status is 0 exactly when run returned nil, it is the child's
\* exit code when run returned an abnormal child exit, and it is not 0 for any
\* other error.
C4_ExitStatus ==
    mainPc = "exited" =>
        /\ (exitStatus = 0) <=> (runResult = Nil)
        /\ runResult.kind = "exit" => exitStatus = runResult.code

\* what the loop has read of the child's output so far
Consumed == SubSeq(childAll, 1, Len(childAll) - Len(childRem))

\* C5: however the reads split the child's output, the bytes written to the
\* transcript and to the peer are the bytes read so far, and at the end of the
\* loop all the bytes of the child, nothing added, dropped or reordered.
C5_VerbatimCopy ==
    (isPty /\ brPc \in {"read", "wait"}) =>
        /\ transcript = Consumed
        /\ peerOut = Consumed

C7_AuthorizationGate ==
    /\ \A k \in Keys :
          PublicKeyHandler(authorizedKeys, k) <=> k \in Range(authorizedKeys)
    /\ \A c \in Conns :
          conn[c].st \notin {"none", "accepted"} =>
              ((conn[c].st # "rejected") <=> (conn[c].key \in Range(authorizedKeys)))
    /\ \A c \in Conns : conn[c].st = "rejected" => c \notin executed
    /\ (\A c \in Conns : conn[c].st \in {"none", "accepted", "rejected"})
          /\ timerPc \in {"unspawned", "waiting", "fired", "cancelled"}
          => once = "idle"

\* a peer was rejected and a later peer with an authorized key was bridged
C7_Witness ==
    \E c, d \in Conns :
        /\ c < d
        /\ conn[c].st = "rejected"
        /\ conn[d].st = "bridging"
        /\ conn[d].key = authorizedKeys[Len(authorizedKeys)]
        /\ brPc = "read"

\* the single opportunity has resolved: the timer won the once, or the bridge
\* of the serviced session returned
Resolved ==
    \/ Timer \in executed
    \/ \E c \in Conns : conn[c].st \in {"closing", "served"}

\* C8: under fair scheduling, once the single opportunity has resolved, run
\* eventually returns.
C8_EventuallyReturns == Resolved ~> RunReturned

\* C9: whenever the listener accepts connections, or a peer has connected,
\* the key line has been printed and the announce command, if one was given,
\* has been invoked.
C9_KeyLineBeforeListening ==
    (lnState = "listening" \/ \E c \in Conns : conn[c].st # "none") =>
        /\ keyPrinted
        /\ hasAnnounce => announced

\* a peer connected to a server that was started with an announce command
C9_Witness ==
    /\ hasAnnounce
    /\ lnState = "listening"
    /\ conn[1].st = "accepted"

\* C10: each chunk is logged before it is written to the peer and the next
\* read follows both; a chunk whose log write failed is never written to the
\* peer.  So the chunks written to the peer are a prefix of the chunks logged,
\* at most one chunk shorter.
C10_LogBeforePeer ==
    /\ IsPrefix(peerChunks, logChunks)
    /\ Len(logChunks) - Len(peerChunks) <= 1
    /\ nPeerTry <= Len(logChunks)
    /\ brPc = "read" => Len(peerChunks) = Len(logChunks)
    /\ brPc = "write" => nPeerTry = Len(logChunks) - 1
    /\ brRet = LogWriteError => nPeerTry = Len(logChunks)

\* the second chunk is in the transcript and not yet written to the peer
C10_Witness ==
    /\ brPc = "write"
    /\ Len(logChunks) = 2
    /\ Len(peerChunks) = 1

\* C11: once a connection has entered the gate, the timer never executes the
\* body of its once.Do and never closes the server, whether or not the
\* timeout elapses.  While the bridge runs the server is not closed and the
\* listener listens; the server is closed only by the handler of that
\* connection, after the bridge has returned.
C11_TimeoutNeverInterruptsSession ==
    \A c \in Conns : c \in executed =>
        /\ Timer \notin executed
        /\ Timer \notin closedBy
        /\ timerPc # "body"
        /\ closedBy \subseteq {c}
        /\ conn[c].st = "bridging" =>
              /\ ~srvClosed
              /\ closedBy = {}
              /\ lnState = "listening"
        /\ srvClosed =>
              /\ c \in closedBy
              /\ conn[c].st = "served"
              /\ brRet # NoResult
              /\ brPc = "idle"

\* the timeout has elapsed while the loop of the bridge forwards a chunk
C11_Witness ==
    /\ timerPc = "fired"
    /\ conn[1].st = "bridging"
    /\ brPc = "write"

\* C12: on the connection path the gate closes first (once is running from
\* the start of the bridge), the outcome is recorded when the bridge has
\* returned, and the server is closed after that: whenever a session has
\* closed the server, the outcome of its bridge is recorded.
C12_HandlerOrder ==
    \A c \in Conns :
        /\ conn[c].st = "bridging" =>
              /\ once = "running"
              /\ c \in executed
              /\ c \notin closedBy
              /\ ~srvClosed
        /\ conn[c].st = "closing" =>
              /\ once = "running"
              /\ brRet # NoResult
              /\ sessionErr = brRet
              /\ c \notin closedBy
              /\ ~srvClosed
        /\ c \in closedBy =>
              /\ conn[c].st = "served"
              /\ once = "done"
              /\ brRet # NoResult
              /\ sessionErr = brRet

\* a session whose child exited with status 3 has closed the server
C12_Witness ==
    /\ 1 \in closedBy
    /\ sessionErr = ExitError(3)

\* the loop ended at its break and goes on to cmd.Wait
LoopEndedNormally == brPc = "wait" \/ waited

\* C13: the loop ends normally exactly when the read failed with an end of
\* file or with the error of a pty whose child is gone; every other failure
\* of the read is returned as an error of the bridge.
C13_ReadErrorClassification ==
    readErr # "none" =>
        /\ EndOfOutput(readErr) <=> LoopEndedNormally
        /\ ~EndOfOutput(readErr) => (brRet = ReadError /\ ~waited)

\* C14: a bridge that has started a child and has returned has called
\* cmd.Wait, and a child that exited with a non-zero status makes the bridge
\* return its ExitError.
C14_WaitsBeforeReturn ==
    (spawned /\ brPc \in {"ret", "idle"}) =>
        /\ waited
        /\ brRet \in {Nil} \cup {ExitError(code) : code \in ExitCodes \ {0}}

Mod16Size(win) == [cols |-> win.w % Uint16Values, rows |-> win.h % Uint16Values]

\* C16 as stated: after e1..ek have been sent and received, the window size
\* of the pty is ek.
C16_SizeIsLastEvent ==
    sizeLog # <<>> =>
        winsize = [cols |-> winEvents[Len(sizeLog)].w, rows |-> winEvents[Len(sizeLog)].h]

\* C16: the resize loop sets the sizes of the events in the order of their
\* arrival, one per event received: the sizes the pty has had are the sizes
\* of the events received, each dimension modulo 65536, and the size of the
\* pty is the last of them.  An event below 65536 in both dimensions is set
\* as it is.
C16_ResizeInOrder ==
    /\ Len(sizeLog) + Len(winCh) = Len(winEvents)
    /\ \A i \in 1..Len(sizeLog) :
          /\ sizeLog[i] = Mod16Size(winEvents[i])
          /\ (winEvents[i].w < Uint16Values /\ winEvents[i].h < Uint16Values) =>
                sizeLog[i] = [cols |-> winEvents[i].w, rows |-> winEvents[i].h]
    /\ winsize = IF sizeLog = <<>> THEN DefaultWinsize ELSE sizeLog[Len(sizeLog)]

\* (80,24) then (132,43) were received: the size is (132,43)
C16_Witness ==
    /\ winEvents = <<[w |-> 80, h |-> 24], [w |-> 132, h |-> 43]>>
    /\ Len(sizeLog) = 2
    /\ winsize = [cols |-> 132, rows |-> 43]

\* C17: when the loop of a pty session has read its first chunk, the window
\* size of the pty has been set, first of all to the window of the pty
\* request.
C17_InitialSizeAtSpawn ==
    (spawned /\ brPc \in {"log", "write", "wait", "ret", "idle"}) =>
        /\ sizeLog # <<>>
        /\ sizeLog[1] = [cols |-> sessWin.w, rows |-> sessWin.h]

\* C18: the bridge of a session without a pty writes the diagnostic to the
\* peer and returns nil at once; it starts no child and no goroutine, waits
\* for no child and writes nothing to the log.
C18_NoPtyNoEffect ==
    (bridgeCalls >= 1 /\ ~isPty) =>
        /\ ~spawned
        /\ ~waited
        /\ childAll = <<>>
        /\ transcript = <<>>
        /\ logChunks = <<>>
        /\ peerChunks = <<>>
        /\ brPc \in {"start", "ret", "idle"}
        /\ brPc = "start" => (peerOut = <<>> /\ brRet = NoResult)
        /\ brPc # "start" =>
              /\ peerOut = Diagnostic
              /\ brRet = Nil
              /\ tasks = {}

\* the bridge of a session without a pty has returned
C18_Witness ==
    /\ ~isPty
    /\ brPc = "ret"
    /\ peerOut = Diagnostic

\* nothing of the server has started
NothingStarted ==
    /\ ~announced
    /\ ~keyPrinted
    /\ timerPc = "unspawned"
    /\ lnState = "none"
    /\ ~srvClosed
    /\ once = "idle"
    /\ executed = {}
    /\ bridgeCalls = 0
    /\ \A c \in Conns : conn[c].st = "none"

\* C19: up to the generation of the host key nothing of the server has
\* started, and when run has returned the error of a failed start-up step,
\* nothing ever has: no announce command, no key line, no timer, no
\* listener, and the once is untouched.
C19_StartupFailureShortCircuits ==
    /\ mainPc \in {"openLog", "parseKeys", "genKey"} => NothingStarted
    /\ runResult = StartupError => NothingStarted

\* a start-up step failed with an announce command configured; main has exited
C19_Witness ==
    /\ runResult = StartupError
    /\ hasAnnounce
    /\ mainPc = "exited"

\* C20: a connection without a pty request that entered the gate has used it
\* up: handleSSHSession is called once, no other connection is bridged, the
\* recorded outcome is nil and the handler closes the server.
C20_NoPtyConsumesGate ==
    \A c \in Conns : (c \in executed /\ ~isPty) =>
        /\ once # "idle"
        /\ executed = {c}
        /\ bridgeCalls = 1
        /\ \A d \in Conns \ {c} : conn[d].st \notin {"bridging", "closing", "served"}
        /\ sessionErr = Nil
        /\ brPc # "start" => brRet = Nil
        /\ conn[c].st = "closing" => ENABLED HandlerClose(c)
        /\ conn[c].st = "served" =>
              /\ srvClosed
              /\ c \in closedBy
              /\ once = "done"
              /\ lnState = "closed"

\* the first connection had no pty, the second was turned away by the gate
C20_Witness ==
    /\ ~isPty
    /\ conn[1].st = "served"
    /\ conn[2].st = "skipped"

\* C21: in the run of pty.go, when handleSession has returned to the handler
\* that entered the once, run eventually returns what handleSession returned.
C21_PtyRunReturnsOutcome ==
    (\E c \in Conns : conn[c].st = "bridging" /\ brPc = "ret")
        ~> (mainPc \in {"returned", "exited"} /\ runResult = brRet)

\* C22 as stated: every event the resize loop has received was set with
\* columns = width and rows = height, whatever the values.
C22_AppliedUnchanged ==
    \A i \in 1..Len(sizeLog) :
        /\ sizeLog[i].cols = winEvents[i].w
        /\ sizeLog[i].rows = winEvents[i].h

\* C22: setWinsize sets columns = width and rows = height for a width and a
\* height below 65536; a width or height of 65536 or more is set reduced
\* modulo 65536, and what is set always fits a uint16.
C22_AppliedModulo ==
    \A i \in 1..Len(sizeLog) :
        /\ sizeLog[i].cols \in 0..(Uint16Values - 1)
        /\ sizeLog[i].rows \in 0..(Uint16Values - 1)
        /\ winEvents[i].w < Uint16Values => sizeLog[i].cols = winEvents[i].w
        /\ winEvents[i].h < Uint16Values => sizeLog[i].rows = winEvents[i].h
        /\ winEvents[i].w >= Uint16Values =>
              sizeLog[i].cols = winEvents[i].w - Uint16Values * (winEvents[i].w \div Uint16Values)
        /\ winEvents[i].h >= Uint16Values =>
              sizeLog[i].rows = winEvents[i].h - Uint16Values * (winEvents[i].h \div Uint16Values)

\* a width of 65616 was set as 80 columns and a height of 65536 as 0 rows
C22_Witness ==
    /\ Len(sizeLog) = 3
    /\ winEvents[2] = [w |-> Uint16Values + 80, h |-> 24]
    /\ sizeLog[2] = [cols |-> 80, rows |-> 24]
    /\ winEvents[3] = [w |-> 80, h |-> Uint16Values]
    /\ winsize = [cols |-> 80, rows |-> 0]

====
